---- MODULE Spec2Model ----
(***************************************************************************)
(* Media catalog service (src/app.py): three SQLite tables (media,         *)
(* movie_links, tv_episodes), two public read handlers (get_all_media,     *)
(* get_media) and two admin write handlers (add_media, add_episodes).      *)
(*                                                                         *)
(* Spec is the service answering one request at a time, each handler one   *)
(* step; NumberSpec is the same service under episodes of any season and   *)
(* episode number; ConcSpec is a write handler and a read handler in       *)
(* flight at once, each SQL statement one step.                            *)
(*                                                                         *)
(* Request bodies of add_media are JSON objects and the items of its       *)
(* arrays are JSON objects; their values are strings, numbers and null.    *)
(* The column created_at (the clock) is left out.                          *)
(*                                                                         *)
(* JSON values are tagged records, so that Python's isinstance tests, a    *)
(* missing key (KeyError) and a JSON null (None, SQL NULL) stay distinct.  *)
(* A JSON object is a function from its keys to values; a table is the     *)
(* sequence of its rows in rowid order, so a row's id is its index.        *)
(***************************************************************************)
EXTENDS Integers, Sequences, FiniteSets, TLC

VARIABLES media, movie_links, tv_episodes, last, w, r, commits

vars == <<media, movie_links, tv_episodes, last, w, r, commits>>

tables == <<media, movie_links, tv_episodes>>

(***************************************************************************)
(* Bounds of the model.                                                    *)
(***************************************************************************)
\* rows of table media
MaxMedia == 2

\* items of one video_links or episodes array of a request
MaxItems == 2

\* rows of the tables movie_links and tv_episodes together
MaxRows == 3

(***************************************************************************)
(* JSON values.                                                            *)
(***************************************************************************)
Null == [null |-> TRUE]

Num(n) == [num |-> n]

Text(s) == [str |-> s]

List(s) == [arr |-> s]

\* isinstance(data, list)
IsList(v) == "arr" \in DOMAIN v

\* field in data
Has(d, k) == k \in DOMAIN d

\* data.get(k)
Get(d, k) == IF k \in DOMAIN d THEN d[k] ELSE Null

\* the object d without the keys ks
Drop(d, ks) == [k \in (DOMAIN d) \ ks |-> d[k]]

\* the objects d and e merged (keys of d win)
Merge(d, e) == [k \in (DOMAIN d) \cup (DOMAIN e) |-> IF k \in DOMAIN d THEN d[k] ELSE e[k]]

\* sequences over S of length at most n
SeqUpTo(S, n) == UNION {[1..k -> S] : k \in 0..n}

(***************************************************************************)
(* Request payloads.                                                       *)
(***************************************************************************)
Episode(s, e) ==
    [season_number |-> Num(s), episode_number |-> Num(e), video_link |-> Text("http://e")]

Pilot == Merge([title |-> Text("Pilot")], Episode(2, 1))

\* two episodes whose season order and episode order disagree; one carries a title
ValidEpisodes == {Episode(1, 2), Pilot}

\* an episode that lacks a required key
NoLinkEpisode == Drop(Episode(1, 1), {"video_link"})

EpisodeObjects == ValidEpisodes \cup {NoLinkEpisode}

\* the JSON arrays of episodes: every mix of valid and faulty episodes, and one array
\* for each other fault (another key missing, a JSON null for a NOT NULL column)
EpisodeArrays ==
    SeqUpTo(EpisodeObjects, MaxItems)
    \cup {<<Drop(Episode(1, 1), {"season_number"})>>,
          <<Drop(Episode(1, 1), {"episode_number"})>>,
          <<[Episode(1, 1) EXCEPT !.video_link = Null]>>}

ValidLinks ==
    {[resolution |-> Text("720p"), video_link |-> Text("http://a")],
     [video_link |-> Text("http://b")]}

\* a link that lacks its required key
NoLinkLink == [resolution |-> Text("1080p")]

LinkObjects == ValidLinks \cup {NoLinkLink}

LinkArrays ==
    SeqUpTo(LinkObjects, MaxItems)
    \cup {<<[resolution |-> Text("1080p"), video_link |-> Null]>>}

Movie == [type |-> Text("movie"), title |-> Text("T")]

Series == [type |-> Text("tvseries"), title |-> Text("T")]

\* add_media bodies whose type or title is missing, null or not allowed
BadHeads ==
    {[type |-> Text("movie")], [title |-> Text("T")], <<>>,
     [type |-> Text("other"), title |-> Text("T")], [type |-> Text("other")],
     [type |-> Null, title |-> Text("T")],
     [type |-> Text("movie"), title |-> Null],
     [type |-> Text("tvseries"), title |-> Null]}

OneLink == [video_links |-> List(<<[video_link |-> Text("http://b")]>>)]

OneEpisode == [episodes |-> List(<<Episode(1, 2)>>)]

\* request.get_json() of POST /admin/media
MediaPayloads ==
    {Movie, Series}
    \cup {Merge(Movie, [video_links |-> List(ls)]) : ls \in LinkArrays}
    \cup {Merge(Series, [episodes |-> List(es)]) : es \in EpisodeArrays}
    \cup {Merge(Movie, OneEpisode), Merge(Series, OneLink),
          Merge(Movie, [episodes |-> List(<<NoLinkEpisode>>)]),
          Merge(Series, [video_links |-> List(<<NoLinkLink>>)]),
          Merge(Movie, Merge(OneLink, OneEpisode)), Merge(Series, Merge(OneLink, OneEpisode))}
    \cup BadHeads
    \cup {Merge(h, c) : h \in {[type |-> Text("other"), title |-> Text("T")], [title |-> Text("T")]},
                        c \in {OneLink, OneEpisode}}

\* request.get_json() of POST /admin/media/<id>/episodes
EpisodePayloads == {List(es) : es \in EpisodeArrays} \cup {Null, Episode(1, 1)}

\* media_id of a request path
MediaIds == 1..(MaxMedia + 1)

(***************************************************************************)
(* Storage: the INSERT statements and the transaction around them.         *)
(***************************************************************************)
NoError == "none"

\* str(KeyError(k))
KeyError(k) == "'" \o k \o "'"

\* str(sqlite3.IntegrityError) of a NOT NULL column
NotNullError(table, column) == "NOT NULL constraint failed: " \o table \o "." \o column

\* str(sqlite3.IntegrityError) of CHECK (type IN ('movie', 'tvseries'))
CheckError(table) == "CHECK constraint failed: " \o table

\* the tables as one value: a connection's view of the database
Db(m, l, e) == [media |-> m, movie_links |-> l, tv_episodes |-> e]

Committed == Db(media, movie_links, tv_episodes)

\* a transaction: the view of its connection, and the exception raised in it
Tx(db) == [db |-> db, err |-> NoError]

Raise(tx, e) == [tx EXCEPT !.err = e]

\* INSERT INTO media (type, title, thumbnail_url, details, release_date)
InsertMedia(tx, data) ==
    IF data.type = Null THEN Raise(tx, NotNullError("media", "type"))
    ELSE IF data.type \notin {Text("movie"), Text("tvseries")} THEN Raise(tx, CheckError("media"))
    ELSE IF data.title = Null THEN Raise(tx, NotNullError("media", "title"))
    ELSE [tx EXCEPT !.db.media = Append(@,
            [type |-> data.type, title |-> data.title,
             thumbnail_url |-> Get(data, "thumbnail_url"),
             details |-> Get(data, "details"),
             release_date |-> Get(data, "release_date")])]

\* cursor.lastrowid after the INSERT INTO media
LastRowId(tx) == Len(tx.db.media)

\* INSERT INTO movie_links (movie_id, resolution, video_link)
InsertMovieLink(tx, media_id, link) ==
    IF ~Has(link, "video_link") THEN Raise(tx, KeyError("video_link"))
    ELSE IF link.video_link = Null THEN Raise(tx, NotNullError("movie_links", "video_link"))
    ELSE [tx EXCEPT !.db.movie_links = Append(@,
            [movie_id |-> media_id, resolution |-> Get(link, "resolution"),
             video_link |-> link.video_link])]

\* INSERT INTO tv_episodes (series_id, season_number, episode_number, title, video_link)
InsertEpisode(tx, media_id, episode) ==
    IF ~Has(episode, "season_number") THEN Raise(tx, KeyError("season_number"))
    ELSE IF ~Has(episode, "episode_number") THEN Raise(tx, KeyError("episode_number"))
    ELSE IF ~Has(episode, "video_link") THEN Raise(tx, KeyError("video_link"))
    ELSE IF episode.season_number = Null
        THEN Raise(tx, NotNullError("tv_episodes", "season_number"))
    ELSE IF episode.episode_number = Null
        THEN Raise(tx, NotNullError("tv_episodes", "episode_number"))
    ELSE IF episode.video_link = Null
        THEN Raise(tx, NotNullError("tv_episodes", "video_link"))
    ELSE [tx EXCEPT !.db.tv_episodes = Append(@,
            [series_id |-> media_id, season_number |-> episode.season_number,
             episode_number |-> episode.episode_number, title |-> Get(episode, "title"),
             video_link |-> episode.video_link])]

\* for link in data['video_links']: INSERT ...   (stops at the first exception)
RECURSIVE InsertMovieLinks(_, _, _)
InsertMovieLinks(tx, media_id, links) ==
    IF links = <<>> \/ tx.err # NoError THEN tx
    ELSE InsertMovieLinks(InsertMovieLink(tx, media_id, Head(links)), media_id, Tail(links))

\* the loop with a try/except around each INSERT: a faulty episode is skipped
RECURSIVE InsertEpisodesSkipFaulty(_, _, _)
InsertEpisodesSkipFaulty(tx, media_id, episodes) ==
    IF episodes = <<>> THEN tx
    ELSE LET tx1 == InsertEpisode(tx, media_id, Head(episodes))
         IN InsertEpisodesSkipFaulty(IF tx1.err = NoError THEN tx1 ELSE tx, media_id,
                                     Tail(episodes))

\* for episode in data: INSERT ...   (stops at the first exception)
RECURSIVE InsertEpisodes(_, _, _)
InsertEpisodes(tx, media_id, episodes) ==
    IF episodes = <<>> \/ tx.err # NoError THEN tx
    ELSE InsertEpisodes(InsertEpisode(tx, media_id, Head(episodes)), media_id, Tail(episodes))

\* a connection that commits whatever was inserted, exception or not
ExitConnectionNoRollback(tx, before) == tx.db

\* leaving "with get_db() as conn": commit, or roll back when an exception passes through
ExitConnection(tx, before) == IF tx.err = NoError THEN tx.db ELSE before

(***************************************************************************)
(* Read handlers.                                                          *)
(***************************************************************************)
Reply(status, body) == [status |-> status, body |-> body]

\* dict(row) of a row of table media
MediaDict(db, media_id) == Merge([id |-> Num(media_id)], db.media[media_id])

\* WHERE column = ?: the rows whose column holds the value, in rowid order
RECURSIVE Where(_, _, _)
Where(rows, column, value) ==
    IF rows = <<>> THEN <<>>
    ELSE (IF Head(rows)[column] = value THEN <<Head(rows)>> ELSE <<>>)
         \o Where(Tail(rows), column, value)

\* the query without its WHERE clause
SelectAllMovieLinks(db, media_id) ==
    [i \in 1..Len(db.movie_links) |->
        [resolution |-> db.movie_links[i].resolution, video_link |-> db.movie_links[i].video_link]]

\* SELECT resolution, video_link FROM movie_links WHERE movie_id = ?
SelectMovieLinks(db, media_id) ==
    LET rows == Where(db.movie_links, "movie_id", media_id)
    IN [i \in 1..Len(rows) |-> [resolution |-> rows[i].resolution, video_link |-> rows[i].video_link]]

\* ORDER BY season_number, episode_number, as a comparison of two rows
EpisodeLeq(a, b) ==
    \/ a.season_number.num < b.season_number.num
    \/ /\ a.season_number.num = b.season_number.num
       /\ a.episode_number.num <= b.episode_number.num

IsOrdered(s) == \A i \in 1..(Len(s) - 1) : EpisodeLeq(s[i], s[i + 1])

\* the orders in which ORDER BY may return rows (SQL leaves the order of ties open)
OrderBySeasonEpisode(rows) ==
    IF rows = <<>> THEN {<<>>}
    ELSE {s \in {[i \in 1..Len(rows) |-> rows[p[i]]] : p \in Permutations(1..Len(rows))} :
            IsOrdered(s)}

\* the query without its ORDER BY clause: the rows in rowid order
SelectEpisodesUnordered(db, media_id) ==
    LET rows == Where(db.tv_episodes, "series_id", media_id)
    IN {[i \in 1..Len(rows) |->
            [season_number |-> rows[i].season_number, episode_number |-> rows[i].episode_number,
             title |-> rows[i].title, video_link |-> rows[i].video_link]]}

\* SELECT season_number, episode_number, title, video_link FROM tv_episodes
\* WHERE series_id = ? ORDER BY season_number, episode_number
SelectEpisodes(db, media_id) ==
    LET rows == Where(db.tv_episodes, "series_id", media_id)
    IN OrderBySeasonEpisode(
        [i \in 1..Len(rows) |->
            [season_number |-> rows[i].season_number, episode_number |-> rows[i].episode_number,
             title |-> rows[i].title, video_link |-> rows[i].video_link]])

\* SELECT * FROM media WHERE id = ?
MediaExists(db, media_id) == media_id \in 1..Len(db.media)

\* the second query of get_media and its response, for the media row its first query found
GetMediaChildren(db, row) ==
    IF row.type = Text("movie")
    THEN {Reply(200, Merge(row, [video_links |-> SelectMovieLinks(db, row.id.num)]))}
    ELSE {Reply(200, Merge(row, [episodes |-> es])) : es \in SelectEpisodes(db, row.id.num)}

\* the responses get_media(media_id) can give when both its queries see db
get_media(db, media_id) ==
    IF ~MediaExists(db, media_id) THEN {Reply(404, [error |-> "Media not found"])}
    ELSE GetMediaChildren(db, MediaDict(db, media_id))

\* the response of get_all_media()
get_all_media(db) == Reply(200, [i \in 1..Len(db.media) |-> MediaDict(db, i)])

(***************************************************************************)
(* Write handlers.                                                         *)
(***************************************************************************)
\* what a write handler returns and what it leaves in the database
Outcome(status, body, db) == [status |-> status, body |-> body, db |-> db]

\* the child table chosen by the arrays the body carries, whatever its type
ChildTableAnyType(data) ==
    IF Has(data, "video_links") THEN "movie_links"
    ELSE IF Has(data, "episodes") THEN "tv_episodes"
    ELSE "none"

\* the table add_media inserts children into, chosen by data['type']
ChildTable(data) ==
    IF data.type = Text("movie") /\ Has(data, "video_links") THEN "movie_links"
    ELSE IF data.type = Text("tvseries") /\ Has(data, "episodes") THEN "tv_episodes"
    ELSE "none"

\* the array add_media iterates over
ChildItems(data) ==
    IF ChildTable(data) = "movie_links" THEN data.video_links.arr
    ELSE IF ChildTable(data) = "tv_episodes" THEN data.episodes.arr
    ELSE <<>>

\* the child INSERTs of add_media
InsertChildren(tx, media_id, data) ==
    IF ChildTable(data) = "movie_links" THEN InsertMovieLinks(tx, media_id, ChildItems(data))
    ELSE IF ChildTable(data) = "tv_episodes" THEN InsertEpisodes(tx, media_id, ChildItems(data))
    ELSE tx

\* add_media validating the required fields only
ValidateMediaNoTypeCheck(data) ==
    IF ~(Has(data, "type") /\ Has(data, "title")) THEN "Missing required fields"
    ELSE NoError

\* the checks of add_media before it opens the database
ValidateMedia(data) ==
    IF ~(Has(data, "type") /\ Has(data, "title")) THEN "Missing required fields"
    ELSE IF data.type \notin {Text("movie"), Text("tvseries")} THEN "Invalid media type"
    ELSE NoError

add_media(db, data) ==
    IF ValidateMedia(data) # NoError
    THEN Outcome(400, [error |-> ValidateMedia(data)], db)
    ELSE LET tx1 == InsertMedia(Tx(db), data)
             media_id == LastRowId(tx1)
             tx2 == IF tx1.err # NoError THEN tx1 ELSE InsertChildren(tx1, media_id, data)
         IN IF tx2.err = NoError
            THEN Outcome(201, [message |-> "Media added successfully", id |-> media_id],
                         ExitConnection(tx2, db))
            ELSE Outcome(500, [error |-> tx2.err], ExitConnection(tx2, db))

\* add_episodes checking only that the media row exists
CheckSeriesExistsOnly(db, media_id) ==
    IF ~MediaExists(db, media_id) THEN Reply(404, [error |-> "Media not found"])
    ELSE Reply(0, Null)

\* "Verify media exists and is a TV series": the early return, or status 0 to go on
CheckSeries(db, media_id) ==
    IF ~MediaExists(db, media_id) THEN Reply(404, [error |-> "Media not found"])
    ELSE IF db.media[media_id].type # Text("tvseries")
    THEN Reply(400, [error |-> "Can only add episodes to TV series"])
    ELSE Reply(0, Null)

add_episodes(db, media_id, data) ==
    IF ~IsList(data)
    THEN Outcome(400, [error |-> "Expected array of episodes"], db)
    ELSE IF CheckSeries(db, media_id).status # 0
    THEN Outcome(CheckSeries(db, media_id).status, CheckSeries(db, media_id).body,
                 ExitConnection(Tx(db), db))
    ELSE LET tx == InsertEpisodes(Tx(db), media_id, data.arr)
         IN IF tx.err = NoError
            THEN Outcome(201, [message |-> "episodes added successfully", count |-> Len(data.arr)],
                         ExitConnection(tx, db))
            ELSE Outcome(500, [error |-> tx.err], ExitConnection(tx, db))

(***************************************************************************)
(* The service, one request at a time: last is the call being answered,    *)
(* its request and its response.                                           *)
(***************************************************************************)
Idle == [pc |-> "idle"]

Request(op, media_id, data) == [op |-> op, media_id |-> media_id, data |-> data]

\* last when no call is being answered
NoCall == [op |-> "none", media_id |-> 0, data |-> Null, status |-> 0, body |-> Null]

Init ==
    /\ media = <<>>
    /\ movie_links = <<>>
    /\ tv_episodes = <<>>
    /\ last = NoCall
    /\ w = Idle
    /\ r = Idle
    /\ commits = {Db(0, 0, 0)}

\* the tables stay within the bounds of the model
WithinBounds(db) ==
    /\ Len(db.media) <= MaxMedia
    /\ Len(db.movie_links) + Len(db.tv_episodes) <= MaxRows

Store(db) ==
    /\ media' = db.media
    /\ movie_links' = db.movie_links
    /\ tv_episodes' = db.tv_episodes

Respond(req, status, body) ==
    last' = [op |-> req.op, media_id |-> req.media_id, data |-> req.data,
             status |-> status, body |-> body]

\* GET /media
GetAllMedia ==
    /\ last = NoCall
    /\ Respond(Request("get_all_media", 0, Null), 200, get_all_media(Committed).body)
    /\ UNCHANGED <<tables, w, r, commits>>

\* GET /media/<media_id>
GetMedia ==
    \E media_id \in MediaIds :
        \E res \in get_media(Committed, media_id) :
            /\ last = NoCall
            /\ Respond(Request("get_media", media_id, Null), res.status, res.body)
            /\ UNCHANGED <<tables, w, r, commits>>

\* POST /admin/media
AddMedia ==
    /\ last = NoCall
    /\ \E data \in MediaPayloads :
        \E out \in {add_media(Committed, data)} :
           /\ WithinBounds(out.db)
           /\ Store(out.db)
           /\ Respond(Request("add_media", 0, data), out.status, out.body)
           /\ UNCHANGED <<w, r, commits>>

\* POST /admin/media/<media_id>/episodes
AddEpisodes ==
    /\ last = NoCall
    /\ \E media_id \in MediaIds :
        \E data \in EpisodePayloads :
            \E out \in {add_episodes(Committed, media_id, data)} :
               /\ WithinBounds(out.db)
               /\ Store(out.db)
               /\ Respond(Request("add_episodes", media_id, data), out.status, out.body)
               /\ UNCHANGED <<w, r, commits>>

\* the response of the call is sent: the service takes the next request
Return ==
    /\ last # NoCall
    /\ last' = NoCall
    /\ UNCHANGED <<tables, w, r, commits>>

Next == GetAllMedia \/ GetMedia \/ AddMedia \/ AddEpisodes \/ Return

Spec == Init /\ [][Next]_vars

(***************************************************************************)
(* The service under requests whose episodes carry any integer as season   *)
(* and episode number: the same handlers, and bodies that are complete     *)
(* but for the sign of their numbers.                                      *)
(***************************************************************************)
\* episodes whose season or episode number is zero or negative
NonPositiveEpisodes == {Episode(0, 1), Episode(1, -1)}

NumberEpisodeArrays == SeqUpTo(ValidEpisodes \cup NonPositiveEpisodes, MaxItems)

\* request.get_json() of POST /admin/media
NumberMediaPayloads ==
    {Movie, Series} \cup {Merge(Series, [episodes |-> List(es)]) : es \in NumberEpisodeArrays}

\* request.get_json() of POST /admin/media/<id>/episodes
NumberEpisodePayloads == {List(es) : es \in NumberEpisodeArrays}

\* POST /admin/media
AddMediaNumbers ==
    /\ last = NoCall
    /\ \E data \in NumberMediaPayloads :
        \E out \in {add_media(Committed, data)} :
           /\ WithinBounds(out.db)
           /\ Store(out.db)
           /\ Respond(Request("add_media", 0, data), out.status, out.body)
           /\ UNCHANGED <<w, r, commits>>

\* POST /admin/media/<media_id>/episodes
AddEpisodesNumbers ==
    /\ last = NoCall
    /\ \E media_id \in MediaIds :
        \E data \in NumberEpisodePayloads :
            \E out \in {add_episodes(Committed, media_id, data)} :
               /\ WithinBounds(out.db)
               /\ Store(out.db)
               /\ Respond(Request("add_episodes", media_id, data), out.status, out.body)
               /\ UNCHANGED <<w, r, commits>>

NumberNext == GetAllMedia \/ GetMedia \/ AddMediaNumbers \/ AddEpisodesNumbers \/ Return

NumberSpec == Init /\ [][NumberNext]_vars

(***************************************************************************)
(* The service under concurrent requests: one write handler (w) and one    *)
(* read handler (r) in flight, each SQL statement a step. Every handler    *)
(* opens a connection of its own (get_db), and SQLite shows a connection   *)
(* the committed rows and its own uncommitted ones; it lets one connection *)
(* write at a time, so the writer in flight stands for the holder of the   *)
(* write lock. commits records the table sizes at each commit: the tables  *)
(* only grow, so a committed state is a prefix of each table.              *)
(***************************************************************************)
\* one connection shared by all handlers: a reader sees the writer's uncommitted rows
SharedConnectionView == IF w.pc \in {"insert_media", "children", "raised"} THEN w.tx.db ELSE Committed

\* what the connection of a read handler sees
ReadView == Committed

Sizes(db) == Db(Len(db.media), Len(db.movie_links), Len(db.tv_episodes))

\* the committed state of the commit point c
Snapshot(c) ==
    Db(SubSeq(media, 1, c.media), SubSeq(movie_links, 1, c.movie_links),
       SubSeq(tv_episodes, 1, c.tv_episodes))

\* the bodies of the concurrent add_media calls: a movie with two links, a series with
\* one episode, one of each that fails on its second child, and one of a type not allowed
ConcMediaPayloads ==
    {Merge(Movie, [video_links |-> List(ls)]) :
        ls \in {<<[video_link |-> Text("http://b")], NoLinkLink>>,
                <<[resolution |-> Text("720p"), video_link |-> Text("http://a")],
                  [video_link |-> Text("http://b")]>>}}
    \cup {Merge(Series, [episodes |-> List(es)]) :
            es \in {<<Episode(1, 2), NoLinkEpisode>>, <<Pilot>>}}
    \cup {[type |-> Text("other"), title |-> Text("T")]}

\* the bodies of the concurrent add_episodes calls: a batch of two episodes, one that
\* fails on its second episode, and one that is no array
ConcEpisodePayloads ==
    {List(es) : es \in {<<Episode(1, 2), NoLinkEpisode>>, <<Episode(1, 2), Pilot>>}}
    \cup {Null}

\* the writer after the early checks of the handler
Writing(req, pc, media_id, table, items) ==
    [pc |-> pc, req |-> req, tx |-> Tx(Committed), media_id |-> media_id,
     table |-> table, items |-> items, i |-> 1]

\* add_media: get_json and the checks before the database is opened
BeginAddMedia ==
    /\ w.pc = "idle"
    /\ \E data \in ConcMediaPayloads :
        /\ WithinBounds(add_media(Committed, data).db)
        /\ IF ValidateMedia(data) # NoError
           THEN /\ Respond(Request("add_media", 0, data), 400, [error |-> ValidateMedia(data)])
                /\ UNCHANGED w
           ELSE /\ w' = Writing(Request("add_media", 0, data), "insert_media", 0,
                                ChildTable(data), ChildItems(data))
                /\ UNCHANGED last
    /\ UNCHANGED <<tables, r, commits>>

\* add_media: INSERT INTO media, and cursor.lastrowid
StepInsertMedia ==
    /\ w.pc = "insert_media"
    /\ \E tx \in {InsertMedia(w.tx, w.req.data)} :
        w' = [w EXCEPT !.tx = tx, !.media_id = LastRowId(tx),
                       !.pc = IF tx.err = NoError THEN "children" ELSE "raised"]
    /\ UNCHANGED <<tables, last, r, commits>>

\* add_episodes: get_json and the isinstance check
BeginAddEpisodes ==
    /\ w.pc = "idle"
    /\ \E media_id \in MediaIds : \E data \in ConcEpisodePayloads :
        /\ WithinBounds(add_episodes(Committed, media_id, data).db)
        /\ IF ~IsList(data)
           THEN /\ Respond(Request("add_episodes", media_id, data), 400,
                           [error |-> "Expected array of episodes"])
                /\ UNCHANGED w
           ELSE /\ w' = Writing(Request("add_episodes", media_id, data), "check_series",
                                media_id, "tv_episodes", data.arr)
                /\ UNCHANGED last
    /\ UNCHANGED <<tables, r, commits>>

\* add_episodes: SELECT type FROM media WHERE id = ?, and the early returns
StepCheckSeries ==
    /\ w.pc = "check_series"
    /\ \E chk \in {CheckSeries(Committed, w.media_id)} :
        IF chk.status # 0
        THEN /\ Respond(w.req, chk.status, chk.body)
             /\ w' = Idle
        ELSE /\ w' = [w EXCEPT !.pc = "children", !.tx = Tx(Committed)]
             /\ UNCHANGED last
    /\ UNCHANGED <<tables, r, commits>>

\* one round of the loop over the child items: one INSERT in the open transaction
StepInsertChild ==
    /\ w.pc = "children"
    /\ w.i <= Len(w.items)
    /\ \E tx \in {IF w.table = "movie_links"
                  THEN InsertMovieLink(w.tx, w.media_id, w.items[w.i])
                  ELSE InsertEpisode(w.tx, w.media_id, w.items[w.i])} :
        w' = [w EXCEPT !.tx = tx, !.i = @ + 1,
                       !.pc = IF tx.err = NoError THEN "children" ELSE "raised"]
    /\ UNCHANGED <<tables, last, r, commits>>

\* conn.commit() after the loop, and the 201 response
StepCommit ==
    /\ w.pc = "children"
    /\ w.i > Len(w.items)
    /\ Store(ExitConnection(w.tx, Committed))
    /\ commits' = commits \cup {Sizes(ExitConnection(w.tx, Committed))}
    /\ Respond(w.req, 201,
               IF w.req.op = "add_media"
               THEN [message |-> "Media added successfully", id |-> w.media_id]
               ELSE [message |-> "episodes added successfully", count |-> Len(w.items)])
    /\ w' = Idle
    /\ UNCHANGED r

\* an exception leaves the with block (rollback) and is answered by the except clause
StepRollback ==
    /\ w.pc = "raised"
    /\ Store(ExitConnection(w.tx, Committed))
    /\ commits' = commits \cup {Sizes(ExitConnection(w.tx, Committed))}
    /\ Respond(w.req, 500, [error |-> w.tx.err])
    /\ w' = Idle
    /\ UNCHANGED r

\* the reader once its response is made; first is the commit point of its first query
Read(op, media_id, first, res) ==
    [pc |-> "done", op |-> op, media_id |-> media_id, first |-> first, res |-> res]

\* get_all_media: its one query and its response
ReadAllMedia ==
    /\ r.pc = "idle"
    /\ r' = Read("get_all_media", 0, Sizes(Committed), get_all_media(ReadView))
    /\ UNCHANGED <<tables, last, w, commits>>

\* get_media: SELECT * FROM media WHERE id = ?, and the 404 response
ReadMediaRow ==
    /\ r.pc = "idle"
    /\ \E media_id \in MediaIds :
        IF ~MediaExists(ReadView, media_id)
        THEN r' = Read("get_media", media_id, Sizes(Committed),
                       Reply(404, [error |-> "Media not found"]))
        ELSE r' = [pc |-> "children", op |-> "get_media", media_id |-> media_id,
                   first |-> Sizes(Committed), row |-> MediaDict(ReadView, media_id)]
    /\ UNCHANGED <<tables, last, w, commits>>

\* get_media: the query of the children, and the 200 response
ReadChildren ==
    /\ r.pc = "children"
    /\ \E res \in GetMediaChildren(ReadView, r.row) :
        r' = Read("get_media", r.media_id, r.first, res)
    /\ UNCHANGED <<tables, last, w, commits>>

\* the read handler returns
ReadReturn ==
    /\ r.pc = "done"
    /\ r' = Idle
    /\ UNCHANGED <<tables, last, w, commits>>

ConcNext ==
    \/ BeginAddMedia \/ StepInsertMedia \/ BeginAddEpisodes \/ StepCheckSeries
    \/ StepInsertChild \/ StepCommit \/ StepRollback
    \/ ReadAllMedia \/ ReadMediaRow \/ ReadChildren \/ ReadReturn

ConcSpec == Init /\ [][ConcNext]_vars

(***************************************************************************)
(* Vocabulary of the properties.                                           *)
(***************************************************************************)
RequiredEpisodeFields == {"season_number", "episode_number", "video_link"}

RequiredLinkFields == {"video_link"}

\* the item lacks one of the fields, or carries a JSON null for it
LacksField(item, fields) == \E k \in fields : ~Has(item, k) \/ item[k] = Null

AnyLacksField(items, fields) == \E i \in 1..Len(items) : LacksField(items[i], fields)

IsMovieBody(data) == Has(data, "type") /\ Has(data, "title") /\ data.type = Text("movie")

IsSeriesBody(data) == Has(data, "type") /\ Has(data, "title") /\ data.type = Text("tvseries")

\* the links an add_media body submits for a movie
SubmittedLinks(data) ==
    IF IsMovieBody(data) /\ Has(data, "video_links") THEN data.video_links.arr ELSE <<>>

\* the episodes an add_media body submits for a series
SubmittedEpisodes(data) ==
    IF IsSeriesBody(data) /\ Has(data, "episodes") THEN data.episodes.arr ELSE <<>>

\* an add_media body one of whose type-matched children cannot be inserted
HasFaultyChild(data) ==
    \/ AnyLacksField(SubmittedLinks(data), RequiredLinkFields)
    \/ AnyLacksField(SubmittedEpisodes(data), RequiredEpisodeFields)

\* the row a submitted link becomes
LinkRow(media_id, link) ==
    [movie_id |-> media_id, resolution |-> Get(link, "resolution"), video_link |-> link.video_link]

\* the row a submitted episode becomes
EpisodeRow(media_id, episode) ==
    [series_id |-> media_id, season_number |-> episode.season_number,
     episode_number |-> episode.episode_number, title |-> Get(episode, "title"),
     video_link |-> episode.video_link]

LinkRows(media_id, links) == [i \in 1..Len(links) |-> LinkRow(media_id, links[i])]

EpisodeRows(media_id, episodes) == [i \in 1..Len(episodes) |-> EpisodeRow(media_id, episodes[i])]

\* the item has no key for one of the fields
MissesKey(item, fields) == \E k \in fields : ~Has(item, k)

AnyMissesKey(items, fields) == \E i \in 1..Len(items) : MissesKey(items[i], fields)

\* the entry get_media is to return for a submitted link
LinkEntry(link) == [resolution |-> Get(link, "resolution"), video_link |-> link.video_link]

\* the entry get_media is to return for a submitted episode
EpisodeEntry(episode) ==
    [season_number |-> episode.season_number, episode_number |-> episode.episode_number,
     title |-> Get(episode, "title"), video_link |-> episode.video_link]

Occurrences(s, x) == Cardinality({i \in 1..Len(s) : s[i] = x})

\* the sequences a and b hold the same entries, each as often
SameEntries(a, b) ==
    /\ Len(a) = Len(b)
    /\ \A i \in 1..Len(a) : Occurrences(a, a[i]) = Occurrences(b, a[i])

\* the pair (season, episode) of a precedes or equals that of b
PairLeq(a, b) ==
    LET sa == a.season_number.num
        sb == b.season_number.num
    IN IF sa = sb THEN a.episode_number.num <= b.episode_number.num ELSE sa < sb

Ascending(s) == \A i, j \in 1..Len(s) : i < j => PairLeq(s[i], s[j])

\* the entries get_media is to return for the rows of a series, in rowid order
StoredEpisodesIn(db, media_id) ==
    LET rows == Where(db.tv_episodes, "series_id", media_id)
    IN [i \in 1..Len(rows) |-> EpisodeEntry(rows[i])]

StoredEpisodes(media_id) == StoredEpisodesIn(Committed, media_id)

\* the step is a call of the handler op
Called(op) == last = NoCall /\ last'.op = op

(***************************************************************************)
(* C1: add_media is atomic. After the call either the new media row and    *)
(* all of its type-matched children are in the tables, appended together,  *)
(* and the call answers 201; or, as whenever a child cannot be inserted,   *)
(* no table has changed and the call reports a failure.                    *)
(***************************************************************************)
C1_AddMediaAtomic ==
    [][Called("add_media") =>
        LET data == last'.data
            id == Len(media) + 1
        IN \/ /\ last'.status = 201
              /\ last'.body.id = id
              /\ ~HasFaultyChild(data)
              /\ Len(media') = id
              /\ media'[id].type = data.type /\ media'[id].title = data.title
              /\ SubSeq(media', 1, id - 1) = media
              /\ movie_links' = movie_links \o LinkRows(id, SubmittedLinks(data))
              /\ tv_episodes' = tv_episodes \o EpisodeRows(id, SubmittedEpisodes(data))
           \/ /\ last'.status >= 400
              /\ UNCHANGED tables]_vars

\* a call failed on its second child after the media row and the first child were inserted
C1_Witness ==
    /\ last.op = "add_media"
    /\ last.status = 500
    /\ Len(media) > 0
    /\ \/ /\ Len(SubmittedLinks(last.data)) = 2
          /\ ~LacksField(SubmittedLinks(last.data)[1], RequiredLinkFields)
          /\ LacksField(SubmittedLinks(last.data)[2], RequiredLinkFields)
       \/ /\ Len(SubmittedEpisodes(last.data)) = 2
          /\ ~LacksField(SubmittedEpisodes(last.data)[1], RequiredEpisodeFields)
          /\ LacksField(SubmittedEpisodes(last.data)[2], RequiredEpisodeFields)

(***************************************************************************)
(* C2: add_episodes is all-or-nothing. When an episode of the submitted    *)
(* array lacks a required field, the call inserts no episode, the valid    *)
(* ones before the faulty one included: tv_episodes (and every other       *)
(* table) is what it was before the call, and the call does not answer 201.*)
(***************************************************************************)
C2_AddEpisodesAllOrNothing ==
    [][(/\ Called("add_episodes")
        /\ IsList(last'.data)
        /\ AnyLacksField(last'.data.arr, RequiredEpisodeFields))
       => (UNCHANGED tables /\ last'.status # 201)]_vars

\* a batch to an existing series failed on its second episode, after a valid first one
C2_Witness ==
    /\ last.op = "add_episodes"
    /\ last.status = 500
    /\ MediaExists(Committed, last.media_id)
    /\ media[last.media_id].type = Text("tvseries")
    /\ Len(last.data.arr) = 2
    /\ ~LacksField(last.data.arr[1], RequiredEpisodeFields)
    /\ LacksField(last.data.arr[2], RequiredEpisodeFields)

(***************************************************************************)
(* C3: in every reachable state each movie_links row references an         *)
(* existing media row of type movie and each tv_episodes row references an *)
(* existing media row of type tvseries.                                    *)
(***************************************************************************)
C3_ChildrenMatchType ==
    /\ \A i \in 1..Len(movie_links) :
        /\ MediaExists(Committed, movie_links[i].movie_id)
        /\ media[movie_links[i].movie_id].type = Text("movie")
    /\ \A i \in 1..Len(tv_episodes) :
        /\ MediaExists(Committed, tv_episodes[i].series_id)
        /\ media[tv_episodes[i].series_id].type = Text("tvseries")

\* a movie with a link and a series with an episode exist, and the last call carried
\* an array that does not match its type
C3_Witness ==
    /\ Len(movie_links) > 0
    /\ Len(tv_episodes) > 0
    /\ last.op = "add_media"
    /\ last.status = 201
    /\ \/ IsMovieBody(last.data) /\ Has(last.data, "episodes")
       \/ IsSeriesBody(last.data) /\ Has(last.data, "video_links")

(***************************************************************************)
(* C4: after add_media answered 201 for a movie body with N links,         *)
(* get_media on the returned id answers 200 with exactly N entries under   *)
(* video_links, the submitted (resolution, video_link) pairs, and no       *)
(* episodes key; and no response for a tvseries has a video_links key.     *)
(***************************************************************************)
C4_MovieLinksReadBack ==
    /\ (last.op = "add_media" /\ last.status = 201 /\ IsMovieBody(last.data)) =>
        \A res \in get_media(Committed, last.body.id) :
            /\ res.status = 200
            /\ Has(res.body, "video_links")
            /\ ~Has(res.body, "episodes")
            /\ Len(res.body.video_links) = Len(SubmittedLinks(last.data))
            /\ SameEntries(res.body.video_links,
                           [i \in 1..Len(SubmittedLinks(last.data)) |->
                                LinkEntry(SubmittedLinks(last.data)[i])])
    /\ \A id \in MediaIds : \A res \in get_media(Committed, id) :
        res.status = 200 =>
            /\ res.body.type = Text("movie") => ~Has(res.body, "episodes")
            /\ res.body.type = Text("tvseries") => ~Has(res.body, "video_links")
    /\ (last.op = "get_media" /\ last.status = 200) =>
        (Has(last.body, "video_links") <=> ~Has(last.body, "episodes"))

\* a second movie was just created with a link, while the first movie has a link of its own
C4_Witness ==
    /\ last.op = "add_media"
    /\ last.status = 201
    /\ last.body.id = 2
    /\ Len(SubmittedLinks(last.data)) = 1
    /\ \E i \in 1..Len(movie_links) : movie_links[i].movie_id = 1

(***************************************************************************)
(* C5: get_media on a tvseries returns all of its episodes, ascending by   *)
(* (season_number, episode_number) whatever the order of submission: the N *)
(* episodes of the add_media body right after creation, and those plus     *)
(* every appended batch after add_episodes.                                *)
(***************************************************************************)
C5_EpisodesSorted ==
    /\ \A id \in 1..Len(media) : media[id].type = Text("tvseries") =>
        \A res \in get_media(Committed, id) :
            /\ res.status = 200
            /\ Ascending(res.body.episodes)
            /\ SameEntries(res.body.episodes, StoredEpisodes(id))
    /\ (last.op = "add_media" /\ last.status = 201 /\ IsSeriesBody(last.data)) =>
        \A res \in get_media(Committed, last.body.id) :
            /\ Len(res.body.episodes) = Len(SubmittedEpisodes(last.data))
            /\ SameEntries(res.body.episodes,
                           [i \in 1..Len(SubmittedEpisodes(last.data)) |->
                                EpisodeEntry(SubmittedEpisodes(last.data)[i])])
    /\ (last.op = "add_episodes" /\ last.status = 201) =>
        \A res \in get_media(Committed, last.media_id) :
            \A i \in 1..Len(last.data.arr) :
                \E j \in 1..Len(res.body.episodes) :
                    res.body.episodes[j] = EpisodeEntry(last.data.arr[i])

\* a batch was appended to a series whose rows are now stored out of order
C5_Witness ==
    /\ last.op = "add_episodes"
    /\ last.status = 201
    /\ Len(last.data.arr) > 0
    /\ Len(StoredEpisodes(last.media_id)) >= 3
    /\ ~Ascending(StoredEpisodes(last.media_id))

(***************************************************************************)
(* C6: add_media with type and title present and a type outside            *)
(* {movie, tvseries} answers 400 "Invalid media type" and leaves every     *)
(* table as it was; a body without type or without title answers 400       *)
(* "Missing required fields", whatever the value of its type.              *)
(***************************************************************************)
C6_InvalidTypeRejected ==
    [][Called("add_media") =>
        LET data == last'.data
        IN /\ ~(Has(data, "type") /\ Has(data, "title")) =>
                /\ last'.status = 400
                /\ last'.body = [error |-> "Missing required fields"]
                /\ UNCHANGED tables
           /\ (Has(data, "type") /\ Has(data, "title")
                    /\ data.type \notin {Text("movie"), Text("tvseries")}) =>
                /\ last'.status = 400
                /\ last'.body = [error |-> "Invalid media type"]
                /\ UNCHANGED tables]_vars

\* a body of type "other" with a title and a child array was rejected, rows being stored
C6_Witness ==
    /\ last.op = "add_media"
    /\ last.status = 400
    /\ Has(last.data, "title")
    /\ Has(last.data, "type")
    /\ last.data.type = Text("other")
    /\ Has(last.data, "video_links")
    /\ Len(media) > 0

(***************************************************************************)
(* C7: add_episodes with an array of well-formed episodes answers 404 on   *)
(* an id that no media row has, and 400 on the id of a movie; in both      *)
(* cases every table is left as it was.                                    *)
(***************************************************************************)
C7_EpisodesNeedSeries ==
    [][(/\ Called("add_episodes")
        /\ IsList(last'.data)
        /\ ~AnyLacksField(last'.data.arr, RequiredEpisodeFields))
       => /\ ~MediaExists(Committed, last'.media_id) =>
                (last'.status = 404 /\ UNCHANGED tables)
          /\ (MediaExists(Committed, last'.media_id)
                /\ media[last'.media_id].type = Text("movie")) =>
                (last'.status = 400 /\ UNCHANGED tables)]_vars

\* two well-formed episodes were sent to the id of a movie
C7_Witness ==
    /\ last.op = "add_episodes"
    /\ last.status = 400
    /\ IsList(last.data)
    /\ Len(last.data.arr) = 2
    /\ ~AnyLacksField(last.data.arr, RequiredEpisodeFields)
    /\ MediaExists(Committed, last.media_id)
    /\ media[last.media_id].type = Text("movie")

(***************************************************************************)
(* C8: a child item without a required key is answered as a validation     *)
(* error, status 400: in add_media for a link without video_link and an    *)
(* episode without season_number, episode_number or video_link, in         *)
(* add_episodes for such an episode sent to an existing series.            *)
(***************************************************************************)
C8_MissingChildFieldIs400 ==
    /\ (/\ last.op = "add_media"
        /\ Has(last.data, "title")
        /\ last.data.title # Null
        /\ \/ AnyMissesKey(SubmittedLinks(last.data), RequiredLinkFields)
           \/ AnyMissesKey(SubmittedEpisodes(last.data), RequiredEpisodeFields))
       => last.status = 400
    /\ (/\ last.op = "add_episodes"
        /\ IsList(last.data)
        /\ MediaExists(Committed, last.media_id)
        /\ media[last.media_id].type = Text("tvseries")
        /\ AnyMissesKey(last.data.arr, RequiredEpisodeFields))
       => last.status = 400

(***************************************************************************)
(* C9: a read that runs concurrently with a write observes a committed     *)
(* state. The response of get_media or get_all_media is one the handler    *)
(* gives on the tables as they were at some commit point: for every write  *)
(* that is the state before it began or the state after it committed, so   *)
(* no response holds a media row without the children of its add_media     *)
(* call, or a part of the episodes of one add_episodes batch.              *)
(***************************************************************************)
C9_ReadsSeeCommittedState ==
    r.pc = "done" =>
        \E c \in commits :
            IF r.op = "get_media"
            THEN r.res \in get_media(Snapshot(c), r.media_id)
            ELSE r.res = get_all_media(Snapshot(c))

\* a get_media whose first query ran before a write to its series committed answered
\* with the episodes of that write, while the next write to the series is half done
C9_Witness ==
    /\ r.pc = "done"
    /\ r.op = "get_media"
    /\ r.res.status = 200
    /\ Has(r.res.body, "episodes")
    /\ Len(r.res.body.episodes) > Len(StoredEpisodesIn(Snapshot(r.first), r.media_id))
    /\ w.pc = "children"
    /\ w.media_id = r.media_id
    /\ w.i = 2

(***************************************************************************)
(* C10: add_episodes accepts only a non-empty array: a body that is no     *)
(* array answers 400 "Expected array of episodes", and the call answers    *)
(* 201 only when the array holds at least one episode, the reported count  *)
(* being the length of the array.                                          *)
(***************************************************************************)
C10_NonEmptyArrayOnly ==
    last.op = "add_episodes" =>
        /\ ~IsList(last.data) =>
            (last.status = 400 /\ last.body = [error |-> "Expected array of episodes"])
        /\ last.status = 201 =>
            (Len(last.data.arr) >= 1 /\ last.body.count = Len(last.data.arr))

\* the value is a positive integer
IsPositive(v) == "num" \in DOMAIN v /\ v.num > 0

(***************************************************************************)
(* C11: in every reachable state each tv_episodes row, inserted by         *)
(* add_media or by add_episodes, has a season_number and an                *)
(* episode_number that are positive integers; an episode submitted with a  *)
(* zero or negative number is never stored.                                *)
(***************************************************************************)
C11_EpisodeNumbersPositive ==
    \A i \in DOMAIN tv_episodes :
        IsPositive(tv_episodes[i].season_number) /\ IsPositive(tv_episodes[i].episode_number)

====
